---- MODULE Spec2Model ----
\* A model of diyanet.py: the two streaming HTML extractors (OptionParser,
\* PrayerTimeParser), the page cache of Diyanet.do_request with its shelve
\* store, Diyanet.get_times, the geographic lookups (get_country, get_state,
\* get_region) and _get_cache_dir.
\*
\* Representation.  A Python str is a sequence of atoms (an atom is one
\* character, or an unbreakable run of characters such as "country-select");
\* the concrete string is the concatenation of its atoms.  The six Turkish
\* labels of get_times are the atoms "Imsak", "Gunes", "Ogle", "Ikindi",
\* "Aksam", "Yatsi", written without their diacritics.  A value that may
\* be None is a sequence of length at most one: None is <<>> and a present
\* value x is <<x>>.  A Python dict is a sequence of <<key, value>> items in
\* insertion order.  An HTML document is the sequence of events that
\* html.parser.HTMLParser.feed hands to the handlers.
EXTENDS Integers, Sequences, FiniteSets, Bags, TLC

VARIABLES
    optp,       \* the OptionParser instance being fed
    odoc,       \* the document given to OptionParser.feed
    opos,       \* number of events of odoc already handled
    ptp,        \* the PrayerTimeParser instance being fed
    tdoc,       \* the document given to PrayerTimeParser.feed (page run)
    tpos,       \* number of events already handled
    tev,        \* the event handled by the last parser step
    gpage,      \* body of the region page seen by get_times
    gresult,    \* outcome of get_times
    db,         \* the shelve store on disk, section by section
    alive,      \* whether a Diyanet instance is constructed in the process
    page_cache,         \* Diyanet._page_cache
    countries_cache,    \* Diyanet._countries_cache
    gets,       \* network GETs of the current process, in order
    stored,     \* URLs whose body some instance on this store has cached
    runs,       \* number of processes started on the store so far
    last,       \* outcome of the last operation on the cache
    site,       \* what the site answers to a GetRegList request
    lookup,     \* the last geographic listing or lookup and its outcome
    environ,    \* os.environ
    dirs,       \* the directories that exist on the file system
    cache_dir   \* outcome of _get_cache_dir

vars == <<optp, odoc, opos, ptp, tdoc, tpos, tev, gpage, gresult,
          db, alive, page_cache, countries_cache, gets, stored, runs, last,
          site, lookup, environ, dirs, cache_dir>>

optVars == <<optp, odoc, opos>>
timeVars == <<ptp, tdoc, tpos, tev>>
getVars == <<gpage, gresult>>
cacheVars == <<db, alive, page_cache, countries_cache, gets, stored, runs, last>>
geoVars == <<site, lookup>>
envVars == <<environ, dirs, cache_dir>>

----------------------------------------------------------------------------
\* Python values

None == <<>>
Some(x) == <<x>>

Last(s) == s[Len(s)]
Front(s) == SubSeq(s, 1, Len(s) - 1)

RECURSIVE SeqsUpTo(_, _)
SeqsUpTo(S, n) ==
    IF n = 0 THEN {<<>>}
    ELSE LET shorter == SeqsUpTo(S, n - 1)
         IN  shorter \cup {Append(s, x) : s \in {t \in shorter : Len(t) = n - 1}, x \in S}

\* needle in hay, for str
Contains(hay, needle) ==
    \E i \in 0..(Len(hay) - Len(needle)) :
        SubSeq(hay, i + 1, i + Len(needle)) = needle

\* dict(_attr): a later attribute of the same name replaces an earlier one
dict_has(items, key) == \E i \in 1..Len(items) : items[i][1] = key

dict_get(items, key) ==
    LET i == CHOOSE j \in 1..Len(items) :
                 /\ items[j][1] = key
                 /\ \A k \in (j + 1)..Len(items) : items[k][1] # key
    IN  items[i][2]

Whitespace == {" ", "\n", "\t"}

RECURSIVE lstrip(_)
lstrip(s) ==
    IF s # <<>> /\ Head(s) \in Whitespace THEN lstrip(Tail(s)) ELSE s

RECURSIVE rstrip(_)
rstrip(s) ==
    IF s # <<>> /\ Last(s) \in Whitespace THEN rstrip(Front(s)) ELSE s

\* str.strip()
strip(s) == rstrip(lstrip(s))

\* str.casefold(), atom by atom
FoldAtom(a) ==
    CASE a = "A" -> <<"a">> [] a = "B" -> <<"b">> [] a = "C" -> <<"c">>
      [] a = "D" -> <<"d">> [] a = "E" -> <<"e">> [] a = "F" -> <<"f">>
      [] a = "G" -> <<"g">> [] a = "H" -> <<"h">> [] a = "I" -> <<"i">>
      [] a = "J" -> <<"j">> [] a = "K" -> <<"k">> [] a = "L" -> <<"l">>
      [] a = "M" -> <<"m">> [] a = "N" -> <<"n">> [] a = "O" -> <<"o">>
      [] a = "P" -> <<"p">> [] a = "Q" -> <<"q">> [] a = "R" -> <<"r">>
      [] a = "S" -> <<"s">> [] a = "T" -> <<"t">> [] a = "U" -> <<"u">>
      [] a = "V" -> <<"v">> [] a = "W" -> <<"w">> [] a = "X" -> <<"x">>
      [] a = "Y" -> <<"y">> [] a = "Z" -> <<"z">> [] a = "ß" -> <<"s", "s">>
      [] OTHER -> <<a>>

RECURSIVE casefold(_)
casefold(s) ==
    IF s = <<>> THEN <<>> ELSE FoldAtom(Head(s)) \o casefold(Tail(s))

Digits == {"0", "1", "2", "3", "4", "5", "6", "7", "8", "9"}

DigitVal(c) ==
    CASE c = "0" -> 0 [] c = "1" -> 1 [] c = "2" -> 2 [] c = "3" -> 3
      [] c = "4" -> 4 [] c = "5" -> 5 [] c = "6" -> 6 [] c = "7" -> 7
      [] c = "8" -> 8 [] c = "9" -> 9

AllDigits(s) == \A i \in 1..Len(s) : s[i] \in Digits

RECURSIVE DecVal(_)
DecVal(s) ==
    IF s = <<>> THEN 0 ELSE 10 * DecVal(Front(s)) + DigitVal(Last(s))

\* int(str): surrounding whitespace is ignored, one sign is allowed
IntBody(s) ==
    LET t == strip(s) IN
    IF t # <<>> /\ Head(t) \in {"+", "-"} THEN Tail(t) ELSE t

int_ok(s) == IntBody(s) # <<>> /\ AllDigits(IntBody(s))

int(s) ==
    LET t == strip(s) IN
    IF t # <<>> /\ Head(t) = "-" THEN 0 - DecVal(IntBody(s)) ELSE DecVal(IntBody(s))

----------------------------------------------------------------------------
\* Markup events

StartTag(tag, attrs) == [kind |-> "start", tag |-> tag, attrs |-> attrs, data |-> <<>>]
Data(text) == [kind |-> "data", tag |-> "", attrs |-> <<>>, data |-> text]
EndTag(tag) == [kind |-> "end", tag |-> tag, attrs |-> <<>>, data |-> <<>>]
NoEvent == [kind |-> "none", tag |-> "", attrs |-> <<>>, data |-> <<>>]

Class(c) == <<<<"class", Some(c)>>>>

----------------------------------------------------------------------------
\* OptionParser

\* HTMLParser.reset starts lasttag at "???"
OptionParser(identifier) ==
    [options |-> <<>>, identifier |-> identifier, record_options |-> FALSE,
     lasttag |-> Some("???"), error |-> "none"]

IsTargetSelect(self, tag, attributes) ==
    /\ tag = "select"
    /\ dict_has(attributes, "class")
    /\ dict_get(attributes, "class") # None
    /\ Contains(dict_get(attributes, "class")[1], self.identifier)

\* `identifier in None` raises
ClassIsNone(tag, attributes) ==
    /\ tag = "select"
    /\ dict_has(attributes, "class")
    /\ dict_get(attributes, "class") = None

OptionValueError(attributes) ==
    IF ~dict_has(attributes, "value") THEN "KeyError"
    ELSE IF dict_get(attributes, "value") = None THEN "TypeError"
    ELSE IF ~int_ok(dict_get(attributes, "value")[1]) THEN "ValueError"
    ELSE "none"

\* HTMLParser.parse_starttag sets lasttag, then calls handle_starttag
OptionParser_handle_starttag(self, tag, _attr) ==
    LET seen == [self EXCEPT !.lasttag = Some(tag)] IN
    IF ClassIsNone(tag, _attr) THEN [seen EXCEPT !.error = "TypeError"]
    ELSE IF IsTargetSelect(self, tag, _attr)
    THEN [seen EXCEPT !.record_options = TRUE]
    ELSE IF self.record_options /\ tag = "option"
    THEN IF OptionValueError(_attr) # "none"
         THEN [seen EXCEPT !.error = OptionValueError(_attr)]
         ELSE [seen EXCEPT !.options =
                   Append(@, <<None, int(dict_get(_attr, "value")[1])>>)]
    ELSE seen

OptionLabelWanted(self) ==
    /\ self.record_options
    /\ self.lasttag = Some("option")
    /\ Last(self.options)[1] = None

OptionParser_handle_data(self, data) ==
    IF self.record_options /\ self.lasttag = Some("option") /\ self.options = <<>>
    THEN [self EXCEPT !.error = "IndexError"]
    ELSE IF OptionLabelWanted(self)
    THEN [self EXCEPT !.options[Len(self.options)] = <<Some(casefold(data)), @[2]>>]
    ELSE self

\* list.sort(key=lambda t: t[1]): stable, ascending
RECURSIVE InsertByIdx(_, _)
InsertByIdx(sorted, item) ==
    IF sorted = <<>> THEN <<item>>
    ELSE IF Last(sorted)[2] <= item[2] THEN Append(sorted, item)
    ELSE Append(InsertByIdx(Front(sorted), item), Last(sorted))

SortByIdx_unsorted(items) == items

RECURSIVE SortByIdx(_)
SortByIdx(items) ==
    IF items = <<>> THEN <<>>
    ELSE InsertByIdx(SortByIdx(Front(items)), Last(items))

\* a handle_endtag that sorts but stays in recording mode
OptionParser_handle_endtag_recording(self, tag) ==
    IF tag = "select" /\ self.record_options
    THEN [self EXCEPT !.options = SortByIdx(@)]
    ELSE self

OptionParser_handle_endtag(self, tag) ==
    IF tag = "select" /\ self.record_options
    THEN [self EXCEPT !.record_options = FALSE, !.options = SortByIdx(@)]
    ELSE self

OptionParser_handle(self, ev) ==
    CASE ev.kind = "start" -> OptionParser_handle_starttag(self, ev.tag, ev.attrs)
      [] ev.kind = "data" -> OptionParser_handle_data(self, ev.data)
      [] ev.kind = "end" -> OptionParser_handle_endtag(self, ev.tag)

\* HTMLParser.feed: the handlers run in document order; an exception ends it
RECURSIVE OptionParser_feed(_, _)
OptionParser_feed(self, doc) ==
    IF doc = <<>> \/ self.error # "none" THEN self
    ELSE OptionParser_feed(OptionParser_handle(self, Head(doc)), Tail(doc))

----------------------------------------------------------------------------
\* PrayerTimeParser

NAME == "NAME"
VALUE == "VALUE"
NoState == "None"

PrayerTimeParser == [times |-> <<>>, record_state |-> NoState, error |-> "none"]

\* a handle_starttag that looks at the class of every tag, not of <div> only
PrayerTimeParser_handle_starttag_anytag(self, tag, _attr) ==
    IF dict_has(_attr, "class")
    THEN IF dict_get(_attr, "class") = Some(<<"tpt-title">>)
         THEN [self EXCEPT !.record_state = NAME]
         ELSE IF dict_get(_attr, "class") = Some(<<"tpt-time">>)
         THEN [self EXCEPT !.record_state = VALUE]
         ELSE self
    ELSE self

PrayerTimeParser_handle_starttag(self, tag, _attr) ==
    IF tag = "div" /\ dict_has(_attr, "class")
    THEN IF dict_get(_attr, "class") = Some(<<"tpt-title">>)
         THEN [self EXCEPT !.record_state = NAME]
         ELSE IF dict_get(_attr, "class") = Some(<<"tpt-time">>)
         THEN [self EXCEPT !.record_state = VALUE]
         ELSE self
    ELSE self

\* a test that takes every last record for one that waits for its value
LastValueIsNone_always(self) == TRUE

\* times[-1][1] is None
LastValueIsNone(self) == Last(self.times)[2] = None

\* a handle_data that overwrites the value of a record already complete
PrayerTimeParser_handle_data_overwrite(self, data) ==
    IF self.record_state = NoState THEN self
    ELSE IF self.record_state = NAME
            /\ (Len(self.times) = 0 \/ ~LastValueIsNone(self))
    THEN [self EXCEPT !.times = Append(@, <<strip(data), None>>)]
    ELSE IF self.record_state = VALUE /\ Len(self.times) = 0
    THEN [self EXCEPT !.error = "IndexError"]
    ELSE IF self.record_state = VALUE
    THEN [self EXCEPT !.times[Len(self.times)] = <<@[1], Some(data)>>]
    ELSE [self EXCEPT !.times = Front(@)]

\* a handle_data that starts a new record on every text of a tpt-title div
PrayerTimeParser_handle_data_append(self, data) ==
    IF self.record_state = NoState THEN self
    ELSE IF self.record_state = NAME
    THEN [self EXCEPT !.times = Append(@, <<strip(data), None>>)]
    ELSE IF self.record_state = VALUE /\ Len(self.times) = 0
    THEN [self EXCEPT !.error = "IndexError"]
    ELSE IF self.record_state = VALUE /\ LastValueIsNone(self)
    THEN [self EXCEPT !.times[Len(self.times)] = <<@[1], Some(data)>>]
    ELSE [self EXCEPT !.times = Front(@)]

PrayerTimeParser_handle_data(self, data) ==
    IF self.record_state = NoState THEN self
    ELSE IF self.record_state = NAME
            /\ (Len(self.times) = 0 \/ ~LastValueIsNone(self))
    THEN [self EXCEPT !.times = Append(@, <<strip(data), None>>)]
    ELSE IF self.record_state = VALUE /\ Len(self.times) = 0
    THEN [self EXCEPT !.error = "IndexError"]
    ELSE IF self.record_state = VALUE /\ LastValueIsNone(self)
    THEN [self EXCEPT !.times[Len(self.times)] = <<@[1], Some(data)>>]
    ELSE [self EXCEPT !.times = Front(@)]

PrayerTimeParser_handle_endtag_keep(self, tag) == self

PrayerTimeParser_handle_endtag(self, tag) ==
    [self EXCEPT !.record_state = NoState]

PrayerTimeParser_handle(self, ev) ==
    CASE ev.kind = "start" -> PrayerTimeParser_handle_starttag(self, ev.tag, ev.attrs)
      [] ev.kind = "data" -> PrayerTimeParser_handle_data(self, ev.data)
      [] ev.kind = "end" -> PrayerTimeParser_handle_endtag(self, ev.tag)

RECURSIVE PrayerTimeParser_feed(_, _)
PrayerTimeParser_feed(self, doc) ==
    IF doc = <<>> \/ self.error # "none" THEN self
    ELSE PrayerTimeParser_feed(PrayerTimeParser_handle(self, Head(doc)), Tail(doc))

----------------------------------------------------------------------------
\* Option-list documents fed to OptionParser(identifier="country-select")

MaxOpts == 3

Identifier == <<"country-select">>

\* <option value=V>text</option> children: value attribute and text
OptChoices ==
    { <<<<"2">>, <<"T", "u", "r", "k", "e", "y">>>>,
      <<<<"1">>, <<"G", "e", "r", "m", "a", "n", "y">>>>,
      <<<<"0", "2">>, <<"S", "t", "r", "a", "ß", "e">>>>,
      <<<<" ", "1", "0">>, <<"T", "U", "R", "K", "E", "Y">>>> }

TargetClasses == { <<"country-select">>, <<"form-control", " ", "country-select">> }

\* a <select> that is not the targeted one, with one <option> child
OtherSelects == {"absent", "noclass", "otherclass"}

OptionElement(choice) ==
    << StartTag("option", <<<<"value", Some(choice[1])>>>>),
       Data(choice[2]),
       EndTag("option") >>

Blank(ws) == IF ws THEN <<Data(<<"\n", " ">>)>> ELSE <<>>

RECURSIVE OptionElements(_, _)
OptionElements(opts, ws) ==
    IF opts = <<>> THEN <<>>
    ELSE OptionElement(Head(opts)) \o Blank(ws) \o OptionElements(Tail(opts), ws)

OtherSelect(kind) ==
    IF kind = "absent" THEN <<>>
    ELSE << StartTag("select", IF kind = "noclass" THEN <<>> ELSE Class(<<"state-select">>)) >>
         \o OptionElement(<<<<"9">>, <<"X">>>>)
         \o << EndTag("select") >>

OptionDoc(pre, cls, opts, ws, post) ==
    OtherSelect(pre)
    \o << StartTag("select", Class(cls)) >> \o Blank(ws)
    \o OptionElements(opts, ws)
    \o << EndTag("select") >> \o Blank(ws)
    \o OtherSelect(post)

OptionDocs ==
    { OptionDoc(pre, cls, opts, ws, post) :
        pre \in OtherSelects, cls \in TargetClasses,
        opts \in SeqsUpTo(OptChoices, MaxOpts), ws \in BOOLEAN, post \in OtherSelects }

\* no lookup made yet
NoLookup ==
    [op |-> "none", arg |-> None, name |-> <<>>, address |-> None,
     lister |-> "none", listed |-> <<>>,
     status |-> "none", value |-> None, message |-> <<>>]

IdleLookup ==
    /\ site = [status |-> "none", body |-> <<>>]
    /\ lookup = NoLookup

IdleEnviron ==
    /\ environ = <<>> /\ dirs = {}
    /\ cache_dir = [status |-> "none", value |-> None]

IdleTimes ==
    /\ ptp = PrayerTimeParser /\ tdoc = <<>> /\ tpos = 0 /\ tev = NoEvent

IdleOptions ==
    /\ optp = OptionParser(Identifier) /\ odoc = <<>> /\ opos = 0

OptionInit ==
    /\ odoc \in OptionDocs
    /\ optp = OptionParser(Identifier)
    /\ opos = 0

\* HTMLParser.goahead hands the next event of the document to its handler
OptionNext(kind) ==
    /\ opos < Len(odoc)
    /\ optp.error = "none"
    /\ odoc[opos + 1].kind = kind
    /\ optp' = OptionParser_handle(optp, odoc[opos + 1])
    /\ opos' = opos + 1
    /\ UNCHANGED odoc

OptionStartTag == OptionNext("start") /\ UNCHANGED <<timeVars, getVars, cacheVars, geoVars, envVars>>
OptionData == OptionNext("data") /\ UNCHANGED <<timeVars, getVars, cacheVars, geoVars, envVars>>
OptionEndTag == OptionNext("end") /\ UNCHANGED <<timeVars, getVars, cacheVars, geoVars, envVars>>

----------------------------------------------------------------------------
\* Diyanet: the shelve store, the page cache and the country directory

BASE_URL == <<"https://namazvakitleri.diyanet.gov.tr">>

DigitChar(d) ==
    CASE d = 0 -> "0" [] d = 1 -> "1" [] d = 2 -> "2" [] d = 3 -> "3"
      [] d = 4 -> "4" [] d = 5 -> "5" [] d = 6 -> "6" [] d = 7 -> "7"
      [] d = 8 -> "8" [] d = 9 -> "9"

\* str(n) of a non-negative int
RECURSIVE str_int(_)
str_int(n) ==
    IF n < 10 THEN <<DigitChar(n)>>
    ELSE str_int(n \div 10) \o <<DigitChar(n % 10)>>

\* a keyword argument value: an int or a str
PyInt(n) == [int |-> n]
PyStr(s) == [str |-> s]

\* str(v); the str values used need no percent-encoding
str(v) == IF "int" \in DOMAIN v THEN str_int(v.int) ELSE v.str

\* urllib.parse.urlencode of keyword arguments, in the order given
RECURSIVE urlencode(_)
urlencode(kwargs) ==
    IF kwargs = <<>> THEN <<>>
    ELSE LET item == <<Head(kwargs)[1], "=">> \o str(Head(kwargs)[2])
         IN  IF Tail(kwargs) = <<>> THEN item
             ELSE item \o <<"&">> \o urlencode(Tail(kwargs))

\* Request(f"{self.base_url}{endpoint}?" + urlencode(kwargs)).get_full_url()
get_full_url(base_url, endpoint, kwargs) ==
    base_url \o endpoint \o <<"?">> \o urlencode(kwargs)

\* d[key] = value on a dict: a present key keeps its place
dict_set(items, key, value) ==
    IF dict_has(items, key)
    THEN [i \in 1..Len(items) |->
            IF items[i][1] = key THEN <<key, value>> ELSE items[i]]
    ELSE Append(items, <<key, value>>)

Country(name, idx) == [name |-> name, idx |-> idx]

\* {country: Country(country, idx) for country, idx in country_parser.options}
RECURSIVE CountryDict(_)
CountryDict(options) ==
    IF options = <<>> THEN <<>>
    ELSE dict_set(CountryDict(Front(options)), Last(options)[1],
                  Country(Last(options)[1], Last(options)[2]))

\* what urlopen(request) ... page.read().decode() gives: a body or a failure
Response(status, body) == [status |-> status, body |-> body]

CacheHit_never(cache, address) == FALSE

\* `address in self._page_cache`
CacheHit(cache, address) == dict_has(cache, address)

\* a do_request that caches an empty body when the GET fails
do_request_swallow(cache, address, response) ==
    IF dict_has(cache, address)
    THEN [cache |-> cache, result |-> "ok",
          body |-> Some(dict_get(cache, address)), get |-> FALSE]
    ELSE IF response.status = "ok"
    THEN [cache |-> dict_set(cache, address, response.body), result |-> "ok",
          body |-> Some(response.body), get |-> TRUE]
    ELSE [cache |-> dict_set(cache, address, <<>>), result |-> response.status,
          body |-> None, get |-> TRUE]

\* Diyanet.do_request: the cache after the call, what is returned or raised,
\* and whether urlopen was called
do_request(cache, address, response) ==
    IF CacheHit(cache, address)
    THEN [cache |-> cache, result |-> "ok",
          body |-> Some(dict_get(cache, address)), get |-> FALSE]
    ELSE IF response.status = "ok"
    THEN [cache |-> dict_set(cache, address, response.body), result |-> "ok",
          body |-> Some(response.body), get |-> TRUE]
    ELSE [cache |-> cache, result |-> response.status, body |-> None, get |-> TRUE]

\* Diyanet.fetch
fetch(cache, base_url, endpoint, kwargs, response) ==
    do_request(cache, get_full_url(base_url, endpoint, kwargs), response)

HomeEndpoint == <<"/tr-TR/home">>
HomeURL == get_full_url(BASE_URL, HomeEndpoint, <<>>)

\* Diyanet.initalize_countries, given the outcome of its fetch
initalize_countries(fetched) ==
    LET country_parser ==
            OptionParser_feed(OptionParser(Identifier), fetched.body[1])
    IN  IF fetched.result # "ok" THEN [result |-> fetched.result, value |-> <<>>]
        ELSE IF country_parser.error # "none"
        THEN [result |-> country_parser.error, value |-> <<>>]
        ELSE [result |-> "ok", value |-> CountryDict(country_parser.options)]

SectionMissing_always(store, section) == TRUE

\* `section not in db`
SectionMissing(store, section) == store[section] = None

EmptyStore == [page |-> None, countries |-> None, regions |-> None]

MaxRuns == 2
MaxGets == 2

\* bodies the site may serve
HomePage ==
    OptionDoc("absent", <<"form-control", " ", "country-select">>,
              << <<<<"2">>, <<"T", "u", "r", "k", "e", "y">>>>,
                 <<<<"1">>, <<"G", "e", "r", "m", "a", "n", "y">>>> >>,
              FALSE, "absent")

HomePageRepeated ==
    OptionDoc("otherclass", <<"country-select">>,
              << <<<<"2">>, <<"T", "u", "r", "k", "e", "y">>>>,
                 <<<<"1">>, <<"G", "e", "r", "m", "a", "n", "y">>>>,
                 <<<<" ", "1", "0">>, <<"T", "U", "R", "K", "E", "Y">>>> >>,
              TRUE, "absent")

\* an <option> without a value attribute inside the targeted <select>
HomePageBroken ==
    << StartTag("select", Class(<<"country-select">>)),
       StartTag("option", <<>>), Data(<<"X">>), EndTag("option"),
       EndTag("select") >>

Bodies == {HomePage, HomePageRepeated, HomePageBroken}

Responses ==
    {Response("ok", b) : b \in Bodies}
    \cup {Response("URLError", <<>>), Response("UnicodeDecodeError", <<>>)}

RegListEndpoint == <<"/tr-TR/home/GetRegList">>

FetchCalls ==
    { <<HomeEndpoint, <<>>>>,
      <<RegListEndpoint, << <<"ChangeType", PyStr(<<"country">>)>>,
                            <<"CountryId", PyInt(2)>> >>>>,
      <<RegListEndpoint, << <<"ChangeType", PyStr(<<"state">>)>>,
                            <<"CountryId", PyInt(2)>>,
                            <<"StateId", PyInt(510)>> >>>> }

Outcome(op, address, result, body, get) ==
    [op |-> op, address |-> address, result |-> result, body |-> body, get |-> get]

\* the GET log after a call to do_request: what urlopen was asked for and
\* what it gave
Logged(log, address, done, response) ==
    IF done.get
    THEN Append(log, <<address, response.status,
                       IF response.status = "ok" THEN Some(response.body) ELSE None>>)
    ELSE log

Cached(urls, address, done) ==
    IF done.get /\ done.result = "ok" THEN urls \cup {address} ELSE urls

IdleGetTimes ==
    /\ gpage = <<>>
    /\ gresult = [status |-> "none", value |-> <<>>]

IdleCache ==
    /\ db = EmptyStore /\ alive = FALSE /\ page_cache = <<>>
    /\ countries_cache = <<>> /\ gets = <<>> /\ stored = {} /\ runs = 0
    /\ last = Outcome("none", <<>>, "ok", None, FALSE)

\* Diyanet.__init__: shelve.open and initalize_db, sections in the order
\* "page", "countries", "regions".  db[section] hands out a copy of what is
\* stored, so the instance's caches are not the store.
Open(response) ==
    /\ ~alive
    /\ runs < MaxRuns
    /\ runs' = runs + 1
    /\ LET db1 == IF SectionMissing(db, "page")
                  THEN [db EXCEPT !.page = Some(<<>>)] ELSE db
           fetched == fetch(db1.page[1], BASE_URL, HomeEndpoint, <<>>, response)
           made == initalize_countries(fetched)
       IN  IF ~SectionMissing(db1, "countries")
           THEN /\ db' = IF SectionMissing(db1, "regions")
                         THEN [db1 EXCEPT !.regions = Some(<<>>)] ELSE db1
                /\ alive' = TRUE
                /\ page_cache' = db1.page[1]
                /\ countries_cache' = db1.countries[1]
                /\ gets' = <<>>
                /\ stored' = stored
                /\ last' = Outcome("init", HomeURL, "ok", None, FALSE)
           ELSE IF made.result # "ok"
           THEN /\ db' = db1
                /\ alive' = FALSE
                /\ page_cache' = <<>>
                /\ countries_cache' = <<>>
                /\ gets' = Logged(<<>>, HomeURL, fetched, response)
                /\ stored' = stored
                /\ last' = Outcome("init", HomeURL, made.result, None, fetched.get)
           ELSE /\ db' = LET db2 == [db1 EXCEPT !.countries = Some(made.value)]
                         IN  IF SectionMissing(db2, "regions")
                             THEN [db2 EXCEPT !.regions = Some(<<>>)] ELSE db2
                /\ alive' = TRUE
                /\ page_cache' = fetched.cache
                /\ countries_cache' = made.value
                /\ gets' = Logged(<<>>, HomeURL, fetched, response)
                /\ stored' = Cached(stored, HomeURL, fetched)
                /\ last' = Outcome("init", HomeURL, "ok", None, fetched.get)
    /\ UNCHANGED <<optVars, timeVars, getVars, geoVars, envVars>>

\* Diyanet.fetch on the constructed instance
Fetch(endpoint, kwargs, response) ==
    /\ alive
    /\ LET address == get_full_url(BASE_URL, endpoint, kwargs)
           done == fetch(page_cache, BASE_URL, endpoint, kwargs, response)
       IN  /\ CacheHit(page_cache, address) \/ Len(gets) < MaxGets
           /\ page_cache' = done.cache
           /\ gets' = Logged(gets, address, done, response)
           /\ stored' = Cached(stored, address, done)
           /\ last' = Outcome("fetch", address, done.result, done.body, done.get)
    /\ UNCHANGED <<db, alive, countries_cache, runs>>
    /\ UNCHANGED <<optVars, timeVars, getVars, geoVars, envVars>>

\* the process ends: the instance and its attributes are gone, the store stays
Exit ==
    /\ alive
    /\ alive' = FALSE
    /\ page_cache' = <<>>
    /\ countries_cache' = <<>>
    /\ last' = Outcome("exit", <<>>, "ok", None, FALSE)
    /\ UNCHANGED <<db, gets, stored, runs>>
    /\ UNCHANGED <<optVars, timeVars, getVars, geoVars, envVars>>

Init ==
    /\ IdleOptions /\ IdleTimes /\ IdleGetTimes /\ IdleCache
    /\ IdleLookup /\ IdleEnviron

Next ==
    \/ \E response \in Responses : Open(response)
    \/ \E call \in FetchCalls, response \in Responses : Fetch(call[1], call[2], response)
    \/ Exit

Spec == Init /\ [][Next]_vars

OptionsInit ==
    /\ OptionInit /\ IdleTimes /\ IdleGetTimes /\ IdleCache
    /\ IdleLookup /\ IdleEnviron

OptionsNext == OptionStartTag \/ OptionData \/ OptionEndTag

SpecOptions == OptionsInit /\ [][OptionsNext]_vars

----------------------------------------------------------------------------
\* Properties of the page cache and the country directory (Spec)

\* C1: within one instance, once a GET of a URL has succeeded no further GET
\* of that URL is performed, and every fetch that returns gives exactly the
\* body of that one successful GET.
CacheIdempotence ==
    /\ \A i, j \in 1..Len(gets) :
           (i < j /\ gets[i][1] = gets[j][1]) => gets[i][2] # "ok"
    /\ (alive /\ last.op = "fetch" /\ last.result = "ok") =>
           \E i \in 1..Len(gets) :
               /\ gets[i][1] = last.address
               /\ gets[i][2] = "ok"
               /\ gets[i][3] = last.body

\* a fetch answered from the cache although the site was asked for other URLs too
CacheHitSeen ==
    /\ alive /\ last.op = "fetch" /\ ~last.get /\ last.result = "ok"
    /\ Len(gets) >= 2
    /\ last.address # HomeURL

\* C2: a fetch whose GET or decoding fails raises that failure and leaves the
\* page cache and the store as they were, the URL still uncached.
FailedFetchCachesNothing ==
    [][ (last'.op = "fetch" /\ Len(gets') = Len(gets) + 1 /\ Last(gets')[2] # "ok") =>
            /\ last'.result = Last(gets')[2]
            /\ last'.body = None
            /\ page_cache' = page_cache
            /\ db' = db
            /\ ~CacheHit(page_cache', last'.address) ]_vars

FailedFetchSeen ==
    /\ alive /\ last.op = "fetch" /\ last.result = "UnicodeDecodeError"
    /\ Len(page_cache) >= 1

\* C3: a body cached by one instance is in the page cache of every later
\* instance opened on the same store.
PageBodiesSurviveRestart ==
    alive => \A u \in stored : CacheHit(page_cache, u)

\* C4: the countries section is written once per store, from a GET of the home
\* page fed to OptionParser("country-select"); an instance opened on a store
\* that has the section performs no GET and gets the stored directory.
CountriesPopulatedOnce ==
    [][ /\ db.countries # None => db'.countries = db.countries
        /\ (runs' = runs + 1 /\ db.countries # None) =>
               /\ alive'
               /\ gets' = <<>>
               /\ countries_cache' = db.countries[1]
        /\ (runs' = runs + 1 /\ db.countries = None /\ alive') =>
               /\ Len(gets') = 1
               /\ gets'[1][1] = BASE_URL \o <<"/tr-TR/home", "?">>
               /\ gets'[1][2] = "ok"
               /\ db'.countries # None
               /\ countries_cache' = db'.countries[1]
               /\ gets'[1][3] = Some(HomePage) =>
                      countries_cache' =
                          << <<Some(<<"g", "e", "r", "m", "a", "n", "y">>),
                               [name |-> Some(<<"g", "e", "r", "m", "a", "n", "y">>), idx |-> 1]>>,
                             <<Some(<<"t", "u", "r", "k", "e", "y">>),
                               [name |-> Some(<<"t", "u", "r", "k", "e", "y">>), idx |-> 2]>> >>
        /\ (runs' = runs + 1 /\ db.countries = None /\ ~alive') =>
               db'.countries = None ]_vars

\* a second instance opened on a store whose directory the first one wrote
SecondInstanceSeen ==
    /\ runs = 2 /\ alive /\ last.op = "init" /\ gets = <<>>
    /\ Len(countries_cache) = 2

----------------------------------------------------------------------------
\* Properties of OptionParser (SpecOptions)

\* the targeted <select> of a document and its <option> children, read off
\* the document itself
IsTargetStart(ev) ==
    /\ ev.kind = "start" /\ ev.tag = "select"
    /\ \E i \in 1..Len(ev.attrs) :
           /\ ev.attrs[i][1] = "class"
           /\ Contains(ev.attrs[i][2][1], <<"country-select">>)

IsSelectEnd(ev) == ev.kind = "end" /\ ev.tag = "select"

TargetStart(doc) == CHOOSE i \in 1..Len(doc) : IsTargetStart(doc[i])

TargetEnd(doc) ==
    CHOOSE j \in (TargetStart(doc) + 1)..Len(doc) :
        /\ IsSelectEnd(doc[j])
        /\ \A k \in (TargetStart(doc) + 1)..(j - 1) : ~IsSelectEnd(doc[k])

TargetOptionStarts(doc) ==
    { i \in (TargetStart(doc) + 1)..(TargetEnd(doc) - 1) :
          doc[i].kind = "start" /\ doc[i].tag = "option" }

\* (case-folded text, integer value) of the <option> element starting at i
OptionPairAt(doc, i) ==
    <<Some(casefold(doc[i + 1].data)), int(doc[i].attrs[1][2][1])>>

\* event k lies inside a <select> element that is not the targeted one
InOtherSelect(doc, k) ==
    \E i \in 1..k :
        /\ doc[i].kind = "start" /\ doc[i].tag = "select" /\ ~IsTargetStart(doc[i])
        /\ \A m \in i..(k - 1) : ~IsSelectEnd(doc[m])

CountIn(s, x) == Cardinality({i \in 1..Len(s) : s[i] = x})

\* C5: on a well-formed document with N options in the targeted select no
\* handler raises, and at the end options holds exactly N pairs, one (case-folded text, int value) per
\* option, in ascending idx order whatever the document order was.
OptionsExactAndSorted ==
    /\ optp.error = "none"
    /\ opos = Len(odoc) =>
        /\ Len(optp.options) = Cardinality(TargetOptionStarts(odoc))
        /\ \A i \in TargetOptionStarts(odoc) :
               CountIn(optp.options, OptionPairAt(odoc, i)) =
                   Cardinality({j \in TargetOptionStarts(odoc) :
                                    OptionPairAt(odoc, j) = OptionPairAt(odoc, i)})
        /\ \A i, j \in 1..Len(optp.options) :
               i < j => optp.options[i][2] <= optp.options[j][2]
        /\ odoc = HomePage =>
               optp.options = << <<Some(<<"g", "e", "r", "m", "a", "n", "y">>), 1>>,
                                 <<Some(<<"t", "u", "r", "k", "e", "y">>), 2>> >>

\* a document whose options stand in descending idx order has been fed
UnsortedDocumentFed ==
    /\ opos = Len(odoc)
    /\ Len(optp.options) = 3
    /\ \E i, j \in TargetOptionStarts(odoc) :
           i < j /\ OptionPairAt(odoc, i)[2] > OptionPairAt(odoc, j)[2]
    /\ \E k \in 1..Len(odoc) : odoc[k].kind = "data" /\ odoc[k].data = <<"\n", " ">>

\* C6: no event inside a <select> that is not the targeted one changes
\* options, before or after the targeted one; a targeted <select> without
\* <option> children ends with options empty and no error.
OtherSelectsContributeNothing ==
    [][ /\ (opos' = opos + 1 /\ InOtherSelect(odoc, opos')) =>
               /\ optp'.options = optp.options
               /\ optp'.error = "none"
        /\ (opos' = Len(odoc) /\ TargetOptionStarts(odoc) = {}) =>
               /\ optp'.options = <<>>
               /\ optp'.error = "none" ]_vars

\* an empty targeted select between two other selects that have options
EmptyTargetBetweenOthersFed ==
    /\ opos = Len(odoc)
    /\ TargetOptionStarts(odoc) = {}
    /\ optp.options = <<>>
    /\ \E k \in 1..(TargetStart(odoc) - 1) : InOtherSelect(odoc, k) /\ odoc[k].tag = "option"
    /\ \E k \in (TargetEnd(odoc) + 1)..Len(odoc) : InOtherSelect(odoc, k) /\ odoc[k].tag = "option"
    /\ \E k \in 1..Len(odoc) : odoc[k].kind = "start" /\ odoc[k].tag = "select" /\ odoc[k].attrs = <<>>

----------------------------------------------------------------------------
\* PrayerTimeParser fed event by event (SpecTimes)

MaxEvents == 10

TimeStartTags ==
    { StartTag("div", Class(<<"tpt-title">>)),
      StartTag("div", Class(<<"tpt-time">>)),
      StartTag("div", Class(<<"tpt-title", " ", "x">>)),
      StartTag("div", <<>>),
      StartTag("span", Class(<<"tpt-time">>)) }

TimeTexts ==
    { <<"Imsak">>, <<" ", "Gunes", "\n">>, <<"0", "5", ":", "1", "2">> }

TimeEndTags == {"div", "span"}

TimesInit ==
    /\ ptp = PrayerTimeParser /\ tdoc = <<>> /\ tpos = 0 /\ tev = NoEvent
    /\ IdleOptions /\ IdleGetTimes /\ IdleCache
    /\ IdleLookup /\ IdleEnviron

TimesFeed(ev) ==
    /\ tpos < MaxEvents
    /\ ptp.error = "none"
    /\ ptp' = PrayerTimeParser_handle(ptp, ev)
    /\ tev' = ev
    /\ tpos' = tpos + 1
    /\ UNCHANGED <<tdoc, optVars, getVars, cacheVars, geoVars, envVars>>

TimesStartTag == \E ev \in TimeStartTags : TimesFeed(ev)
TimesData == \E text \in TimeTexts : TimesFeed(Data(text))
TimesEndTag == \E tag \in TimeEndTags : TimesFeed(EndTag(tag))

TimesNext == TimesStartTag \/ TimesData \/ TimesEndTag

SpecTimes == TimesInit /\ [][TimesNext]_vars

----------------------------------------------------------------------------
\* PrayerTimeParser fed a well-formed region page (SpecPage)

NPairs == 6

\* the labels of a region page, in the order the site shows them
PageLabels == <<"Imsak", "Gunes", "Ogle", "Ikindi", "Aksam", "Yatsi">>

\* what surrounds the title/value divs of a page
Surroundings == {"none", "text", "tags"}

Around(kind) ==
    CASE kind = "none" -> <<>>
      [] kind = "text" -> << Data(<<"\n", " ", "x">>) >>
      [] kind = "tags" ->
            << StartTag("div", Class(<<"tpt-cell">>)), Data(<<"x">>),
               StartTag("span", Class(<<"tpt-title">>)), Data(<<"y">>), EndTag("span"),
               StartTag("br", <<>>),
               StartTag("div", Class(<<"tpt-title", " ", "x">>)), EndTag("div"),
               EndTag("div") >>

TitleDiv(label) ==
    << StartTag("div", Class(<<"tpt-title">>)), Data(label), EndTag("div") >>

TimeDiv(value) ==
    << StartTag("div", Class(<<"tpt-time">>)), Data(value), EndTag("div") >>

\* the i-th pair of a page: plain, or with blanks around the label
PagePair(i, padded) ==
    IF padded
    THEN <<<<"\n", " ", PageLabels[i], " ">>, <<"1", "7", ":", "0", DigitChar(i)>>>>
    ELSE <<<<PageLabels[i]>>, <<"0", "5", ":", "1", DigitChar(i)>>>>

RECURSIVE PageEvents(_, _)
PageEvents(pairs, kind) ==
    IF pairs = <<>> THEN Around(kind)
    ELSE Around(kind) \o TitleDiv(Head(pairs)[1]) \o Around(kind)
         \o TimeDiv(Head(pairs)[2]) \o PageEvents(Tail(pairs), kind)

PageDocs ==
    { PageEvents([i \in 1..NPairs |-> PagePair(i, padded[i])], kind) :
          padded \in [1..NPairs -> BOOLEAN], kind \in Surroundings }

PageInit ==
    /\ tdoc \in PageDocs
    /\ ptp = PrayerTimeParser /\ tpos = 0 /\ tev = NoEvent
    /\ IdleOptions /\ IdleGetTimes /\ IdleCache
    /\ IdleLookup /\ IdleEnviron

PageNext(kind) ==
    /\ tpos < Len(tdoc)
    /\ ptp.error = "none"
    /\ tdoc[tpos + 1].kind = kind
    /\ ptp' = PrayerTimeParser_handle(ptp, tdoc[tpos + 1])
    /\ tev' = tdoc[tpos + 1]
    /\ tpos' = tpos + 1
    /\ UNCHANGED <<tdoc, optVars, getVars, cacheVars, geoVars, envVars>>

PageStartTag == PageNext("start")
PageData == PageNext("data")
PageEndTag == PageNext("end")

PagesNext == PageStartTag \/ PageData \/ PageEndTag

SpecPage == PageInit /\ [][PagesNext]_vars

----------------------------------------------------------------------------
\* Properties of PrayerTimeParser

IsTitleStart(ev) == ev = StartTag("div", <<<<"class", <<<<"tpt-title">>>>>>>>)
IsTimeStart(ev) == ev = StartTag("div", <<<<"class", <<<<"tpt-time">>>>>>>>)

\* position of the n-th event of the document that satisfies Is
NthStart(doc, n, Is(_)) ==
    CHOOSE k \in 1..Len(doc) :
        /\ Is(doc[k])
        /\ Cardinality({m \in 1..k : Is(doc[m])}) = n

\* C7 (SpecPage): on a well-formed page of six title/value div pairs, with
\* whatever other tags and text around them, no handler raises and at the end
\* times holds exactly six pairs in document order, each the (trimmed) label
\* of a tpt-title div with the text of the tpt-time div that follows it.
SixPairsInDocumentOrder ==
    /\ ptp.error = "none"
    /\ tpos = Len(tdoc) =>
        /\ Len(ptp.times) = 6
        /\ \A n \in 1..6 :
               /\ ptp.times[n][1] = strip(tdoc[NthStart(tdoc, n, IsTitleStart) + 1].data)
               /\ ptp.times[n][2] = Some(tdoc[NthStart(tdoc, n, IsTimeStart) + 1].data)
               /\ ptp.times[n][1] = <<PageLabels[n]>>
               /\ NthStart(tdoc, n, IsTitleStart) < NthStart(tdoc, n, IsTimeStart)
        /\ (\A k \in 1..Len(tdoc) : tdoc[k].kind = "data" => Len(tdoc[k].data) # 4) =>
               ptp.times =
                   << <<<<"Imsak">>, <<<<"0", "5", ":", "1", "1">>>>>>,
                      <<<<"Gunes">>, <<<<"0", "5", ":", "1", "2">>>>>>,
                      <<<<"Ogle">>, <<<<"0", "5", ":", "1", "3">>>>>>,
                      <<<<"Ikindi">>, <<<<"0", "5", ":", "1", "4">>>>>>,
                      <<<<"Aksam">>, <<<<"0", "5", ":", "1", "5">>>>>>,
                      <<<<"Yatsi">>, <<<<"0", "5", ":", "1", "6">>>>>> >>

\* a page with other tags and text around its six pairs has been fed
SurroundedPageFed ==
    /\ tpos = Len(tdoc)
    /\ Len(tdoc) > 18
    /\ Len(ptp.times) = 6
    /\ \E k \in 1..Len(tdoc) : tdoc[k] = StartTag("span", Class(<<"tpt-title">>))
    /\ \E k \in 1..Len(tdoc) : tdoc[k].kind = "data" /\ Len(tdoc[k].data) = 4

\* C8 (SpecTimes): the text of a tpt-time div that arrives when no record is
\* waiting for a value (no record yet, or the last one already has its value)
\* is not retained: the step adds no record and changes none.
IsolatedTimeTextDropped ==
    [][ ( /\ tpos' = tpos + 1
          /\ tev'.kind = "data"
          /\ ptp.record_state = VALUE
          /\ (ptp.times = <<>> \/ Last(ptp.times)[2] # None) ) =>
            /\ Len(ptp'.times) <= Len(ptp.times)
            /\ \A i \in 1..Len(ptp'.times) : ptp'.times[i] = ptp.times[i] ]_vars

\* text has just been handled in the want-value state with no record left
\* and no error: the last record was complete and the text was extra
IsolatedTimeTextSeen ==
    /\ tev.kind = "data"
    /\ ptp.record_state = VALUE
    /\ ptp.error = "none"
    /\ ptp.times = <<>>

----------------------------------------------------------------------------
\* Diyanet.get_times

\* datetime.time
Time(hour, minute, second, microsecond) ==
    [hour |-> hour, minute |-> minute, second |-> second, microsecond |-> microsecond]

TwoDigits(s) == Len(s) >= 2 /\ s[1] \in Digits /\ s[2] \in Digits

Drop(s, n) == SubSeq(s, n + 1, Len(s))

RECURSIVE Pow10(_)
Pow10(n) == IF n = 0 THEN 1 ELSE 10 * Pow10(n - 1)

\* the fraction that may follow the components: digits, the first six count
ParseFraction(vals, rest) ==
    LET kept == IF Len(rest) > 6 THEN SubSeq(rest, 1, 6) ELSE rest IN
    IF ~AllDigits(rest) THEN [ok |-> FALSE, vals |-> vals]
    ELSE [ok |-> TRUE,
          vals |-> Append(vals, DecVal(kept) * Pow10(6 - Len(kept)))]

\* [HH[:?MM[:?SS]]]: component i of s, the components read so far in vals
RECURSIVE ParseComponents(_, _, _, _)
ParseComponents(s, i, has_separator, vals) ==
    IF ~TwoDigits(s) THEN [ok |-> FALSE, vals |-> vals]
    ELSE
    LET read == Append(vals, DecVal(SubSeq(s, 1, 2)))
        rest == Drop(s, 2)
        sep == IF i = 0 THEN (rest # <<>> /\ rest[1] = ":") ELSE has_separator
        padded == read \o [k \in 1..(3 - Len(read)) |-> 0]
    IN  IF rest = <<>> THEN [ok |-> TRUE, vals |-> Append(padded, 0)]
        ELSE IF Len(rest) = 1 THEN [ok |-> FALSE, vals |-> read]
        ELSE IF sep /\ rest[1] = ":"
        THEN IF i = 2 THEN ParseFraction(read, Drop(rest, 1))
             ELSE ParseComponents(Drop(rest, 1), i + 1, sep, read)
        ELSE IF ~sep
        THEN IF i = 2 THEN ParseFraction(read, rest)
             ELSE ParseComponents(rest, i + 1, sep, read)
        ELSE [ok |-> FALSE, vals |-> read]

\* time.fromisoformat on a str of digits, ":", "T" and blanks
ParseTime(s) ==
    ParseComponents(IF s # <<>> /\ s[1] = "T" THEN Tail(s) ELSE s, 0, TRUE, <<>>)

fromisoformat_ok_norange(s) == ParseTime(s).ok

fromisoformat_ok(s) ==
    /\ ParseTime(s).ok
    /\ ParseTime(s).vals[1] <= 23
    /\ ParseTime(s).vals[2] <= 59
    /\ ParseTime(s).vals[3] <= 59

fromisoformat(s) ==
    Time(ParseTime(s).vals[1], ParseTime(s).vals[2],
         ParseTime(s).vals[3], ParseTime(s).vals[4])

PrayerTimes(fajr, sunrise, dhuhr, asr, maghrib, isha) ==
    [fajr |-> fajr, sunrise |-> sunrise, dhuhr |-> dhuhr,
     asr |-> asr, maghrib |-> maghrib, isha |-> isha]

Raised(error) == [status |-> error, value |-> None]
Returned(value) == [status |-> "ok", value |-> Some(value)]

\* what time.fromisoformat(times[label]) raises, times being dict(parser.times)
FieldError(times, label) ==
    IF ~dict_has(times, <<label>>) THEN "KeyError"
    ELSE IF dict_get(times, <<label>>) = None THEN "TypeError"
    ELSE IF ~fromisoformat_ok(dict_get(times, <<label>>)[1]) THEN "ValueError"
    ELSE "none"

\* time.fromisoformat(times[label])
Field(times, label) == fromisoformat(dict_get(times, <<label>>)[1])

\* the arguments of PrayerTimes(...) are evaluated in order: the first that
\* raises ends the call
FirstError(times, labels) ==
    LET failing == {i \in 1..Len(labels) : FieldError(times, labels[i]) # "none"}
    IN  IF failing = {} THEN "none"
        ELSE FieldError(times, labels[CHOOSE i \in failing : \A j \in failing : i <= j])

\* a get_times that takes the pairs by position
get_times_by_position(fetched) ==
    LET parser == PrayerTimeParser_feed(PrayerTimeParser, fetched.body[1])
        times == parser.times
        labels == [i \in 1..6 |-> IF i <= Len(times) THEN times[i][1][1] ELSE "absent"]
    IN  IF fetched.result # "ok" THEN Raised(fetched.result)
        ELSE IF parser.error # "none" THEN Raised(parser.error)
        ELSE IF FirstError(times, labels) # "none"
        THEN Raised(FirstError(times, labels))
        ELSE Returned(PrayerTimes(Field(times, labels[1]), Field(times, labels[2]),
                                  Field(times, labels[3]), Field(times, labels[4]),
                                  Field(times, labels[5]), Field(times, labels[6])))

\* Diyanet.get_times, given the outcome of its fetch
get_times(fetched) ==
    LET parser == PrayerTimeParser_feed(PrayerTimeParser, fetched.body[1])
        times == parser.times
        labels == <<"Imsak", "Gunes", "Ogle", "Ikindi", "Aksam", "Yatsi">>
    IN  IF fetched.result # "ok" THEN Raised(fetched.result)
        ELSE IF parser.error # "none" THEN Raised(parser.error)
        ELSE IF FirstError(times, labels) # "none"
        THEN Raised(FirstError(times, labels))
        ELSE Returned(PrayerTimes(Field(times, "Imsak"), Field(times, "Gunes"),
                                  Field(times, "Ogle"), Field(times, "Ikindi"),
                                  Field(times, "Aksam"), Field(times, "Yatsi")))

----------------------------------------------------------------------------
\* get_times on region pages (SpecGetTimes)

RegionEndpoint == <<"/tr-TR/9541/prayer-time-for-ankara">>

\* the order in which a page lists the six labels
Orders == { <<1, 2, 3, 4, 5, 6>>, <<6, 5, 4, 3, 2, 1>>, <<3, 1, 6, 2, 5, 4>> }

\* what a page shows for the one label it treats specially
Oddities == {"none", "range", "shape", "blank", "notime", "hour"}

OddValue(kind) ==
    CASE kind = "range" -> <<"2", "4", ":", "0", "0">>
      [] kind = "shape" -> <<"5", ":", "1", "2">>
      [] kind = "blank" -> <<"0", "5", ":", "1", "2", " ">>
      [] kind = "hour" -> <<"0", "5">>

RegionPair(i, odd, kind) ==
    IF i = odd /\ kind = "notime" THEN TitleDiv(<<PageLabels[i]>>)
    ELSE TitleDiv(<<PageLabels[i]>>)
         \o TimeDiv(IF i = odd /\ kind # "none" THEN OddValue(kind)
                    ELSE <<"0", "5", ":", "1", DigitChar(i)>>)

RECURSIVE RegionPairs(_, _, _, _)
RegionPairs(order, drop, odd, kind) ==
    IF order = <<>> THEN <<>>
    ELSE (IF Head(order) = drop THEN <<>> ELSE RegionPair(Head(order), odd, kind))
         \o RegionPairs(Tail(order), drop, odd, kind)

Extras == {"none", "other", "repeat"}

RegionPage(order, drop, odd, kind, extra) ==
    (IF extra = "other"
     THEN TitleDiv(<<"Kible">>) \o TimeDiv(<<"1", "2", ":", "0", "0">>) ELSE <<>>)
    \o RegionPairs(order, drop, odd, kind)
    \o (IF extra = "repeat"
        THEN TitleDiv(<<"Imsak">>) \o TimeDiv(<<"2", "3", ":", "5", "9">>) ELSE <<>>)

RegionPages ==
    { RegionPage(order, drop, odd, kind, extra) :
          order \in Orders, drop \in 0..6, odd \in 1..6,
          kind \in Oddities, extra \in Extras }

\* an instance constructed on a store whose country directory is populated
GetTimesInit ==
    /\ gpage \in RegionPages
    /\ gresult = [status |-> "none", value |-> None]
    /\ db = [page |-> Some(<<>>),
             countries |-> Some(CountryDict(OptionParser_feed(OptionParser(Identifier), HomePage).options)),
             regions |-> Some(<<>>)]
    /\ alive = TRUE
    /\ page_cache = <<>>
    /\ countries_cache = db.countries[1]
    /\ gets = <<>> /\ stored = {} /\ runs = 1
    /\ last = Outcome("init", HomeURL, "ok", None, FALSE)
    /\ IdleOptions /\ IdleTimes
    /\ IdleLookup /\ IdleEnviron

\* Diyanet.get_times(region): fetch(region.url), feed, assemble
GetTimes(response) ==
    /\ alive
    /\ LET address == get_full_url(BASE_URL, RegionEndpoint, <<>>)
           done == fetch(page_cache, BASE_URL, RegionEndpoint, <<>>, response)
       IN  /\ CacheHit(page_cache, address) \/ Len(gets) < MaxGets
           /\ page_cache' = done.cache
           /\ gets' = Logged(gets, address, done, response)
           /\ stored' = Cached(stored, address, done)
           /\ last' = Outcome("get_times", address, done.result, done.body, done.get)
           /\ gresult' = get_times(done)
    /\ UNCHANGED <<gpage, db, alive, countries_cache, runs>>
    /\ UNCHANGED <<optVars, timeVars, geoVars, envVars>>

GetTimesNext ==
    \E response \in {Response("ok", gpage), Response("URLError", <<>>)} : GetTimes(response)

SpecGetTimes == GetTimesInit /\ [][GetTimesNext]_vars

----------------------------------------------------------------------------
\* Properties of get_times (SpecGetTimes)

\* the pairs the extractor reports for the page
Extracted == PrayerTimeParser_feed(PrayerTimeParser, gpage)

PairsOf(times, label) == {i \in 1..Len(times) : times[i][1] = <<label>>}

\* the value of the last pair that carries the label
LastValueOf(times, label) ==
    times[CHOOSE i \in PairsOf(times, label) : \A j \in PairsOf(times, label) : j <= i][2]

\* the text HH:MM of a time of day
IsHHMM(v) ==
    /\ Len(v) = 5 /\ v[3] = ":"
    /\ \A k \in {1, 2, 4, 5} : v[k] \in Digits
    /\ 10 * DigitVal(v[1]) + DigitVal(v[2]) \in 0..23
    /\ 10 * DigitVal(v[4]) + DigitVal(v[5]) \in 0..59

ClockOf(v) ==
    [hour |-> 10 * DigitVal(v[1]) + DigitVal(v[2]),
     minute |-> 10 * DigitVal(v[4]) + DigitVal(v[5]),
     second |-> 0, microsecond |-> 0]

Required == {"Imsak", "Gunes", "Ogle", "Ikindi", "Aksam", "Yatsi"}

PageServed == last.op = "get_times" /\ last.result = "ok"

\* C9: when the page yields the six labels with HH:MM values, get_times
\* returns and each field is the time of its own label (Imsak -> fajr,
\* Gunes -> sunrise, Ogle -> dhuhr, Ikindi -> asr, Aksam -> maghrib,
\* Yatsi -> isha), whatever the order of the pairs and whatever other labels
\* the page has.
FieldsFollowLabels ==
    LET out == Extracted
        times == out.times
    IN  ( /\ PageServed
          /\ out.error = "none"
          /\ \A label \in Required :
                 /\ PairsOf(times, label) # {}
                 /\ \A i \in PairsOf(times, label) :
                        /\ times[i][2] # None
                        /\ IsHHMM(times[i][2][1]) ) =>
            /\ gresult.status = "ok"
            /\ gresult.value[1].fajr = ClockOf(LastValueOf(times, "Imsak")[1])
            /\ gresult.value[1].sunrise = ClockOf(LastValueOf(times, "Gunes")[1])
            /\ gresult.value[1].dhuhr = ClockOf(LastValueOf(times, "Ogle")[1])
            /\ gresult.value[1].asr = ClockOf(LastValueOf(times, "Ikindi")[1])
            /\ gresult.value[1].maghrib = ClockOf(LastValueOf(times, "Aksam")[1])
            /\ gresult.value[1].isha = ClockOf(LastValueOf(times, "Yatsi")[1])
            /\ LastValueOf(times, "Imsak") = Some(<<"0", "5", ":", "1", "1">>) =>
                   gresult.value[1].fajr =
                       [hour |-> 5, minute |-> 11, second |-> 0, microsecond |-> 0]

\* get_times has returned for a page that lists Yatsi first and has a label
\* that is none of the six
ReorderedPageReturned ==
    /\ PageServed
    /\ gresult.status = "ok"
    /\ gpage[2] = Data(<<"Kible">>)
    /\ gpage[8] = Data(<<"Yatsi">>)
    /\ gresult.value[1].isha = [hour |-> 5, minute |-> 16, second |-> 0, microsecond |-> 0]

ValidClock(t) ==
    /\ t.hour \in 0..23 /\ t.minute \in 0..59
    /\ t.second \in 0..59 /\ t.microsecond \in 0..999999

\* the number written by the two digits at k and k + 1
NumAt(v, k) == 10 * DigitVal(v[k]) + DigitVal(v[k + 1])

DigitsAt(v, ks) == \A k \in ks : v[k] \in Digits

\* texts that denote a time of day: HH, HH:MM, HH:MM:SS, HHMM, HHMMSS
DenotesTime(v) ==
    \/ Len(v) = 2 /\ DigitsAt(v, 1..2) /\ NumAt(v, 1) <= 23
    \/ /\ Len(v) = 5 /\ v[3] = ":" /\ DigitsAt(v, {1, 2, 4, 5})
       /\ NumAt(v, 1) <= 23 /\ NumAt(v, 4) <= 59
    \/ /\ Len(v) = 4 /\ DigitsAt(v, 1..4)
       /\ NumAt(v, 1) <= 23 /\ NumAt(v, 3) <= 59
    \/ /\ Len(v) = 8 /\ v[3] = ":" /\ v[6] = ":" /\ DigitsAt(v, {1, 2, 4, 5, 7, 8})
       /\ NumAt(v, 1) <= 23 /\ NumAt(v, 4) <= 59 /\ NumAt(v, 7) <= 59
    \/ /\ Len(v) = 6 /\ DigitsAt(v, 1..6)
       /\ NumAt(v, 1) <= 23 /\ NumAt(v, 3) <= 59 /\ NumAt(v, 5) <= 59

\* C10: get_times returns only with six valid times; when one of the six
\* labels is absent from the extractor's pairs, or its value is null or does
\* not denote a time of day, get_times raises and returns nothing.
NoPartialResult ==
    LET out == Extracted
        times == out.times
    IN  last.op = "get_times" =>
            /\ gresult.status = "ok" =>
                   /\ gresult.value # None
                   /\ \A t \in { gresult.value[1].fajr, gresult.value[1].sunrise,
                                 gresult.value[1].dhuhr, gresult.value[1].asr,
                                 gresult.value[1].maghrib, gresult.value[1].isha } :
                          ValidClock(t)
            /\ ( \/ ~PageServed
                 \/ out.error # "none"
                 \/ \E label \in Required :
                        \/ PairsOf(times, label) = {}
                        \/ LastValueOf(times, label) = None
                        \/ ~DenotesTime(LastValueOf(times, label)[1]) ) =>
                   /\ gresult.status # "ok"
                   /\ gresult.value = None

\* get_times has raised on a page served with a required label whose value
\* is out of range
OutOfRangeValueRaised ==
    /\ PageServed
    /\ gresult.status = "ValueError"
    /\ \E k \in 1..Len(gpage) : gpage[k] = Data(<<"2", "4", ":", "0", "0">>)
    /\ gresult.value = None

----------------------------------------------------------------------------
\* Geographic units and the directory listings of Diyanet

State(name, idx, country) == [name |-> name, idx |-> idx, country |-> country]

Region(name, idx, url, country, state) ==
    [name |-> name, idx |-> idx, url |-> url, country |-> country, state |-> state]

\* Diyanet.get_countries: the values of the directory, in dict order
get_countries(cache) == [i \in 1..Len(cache) |-> cache[i][2]]

\* A response body handed to json.loads: JSON text is written as the value
\* tree it denotes, any other text (an HTML page) as NotJSON.
JObject(members) == [kind |-> "object", members |-> members]
JArray(elements) == [kind |-> "array", elements |-> elements]
JString(s) == [kind |-> "string", s |-> s]
JNumber(n) == [kind |-> "number", n |-> n]
JNull == [kind |-> "null"]
NotJSON(doc) == [kind |-> "html", doc |-> doc]

\* the Python value of a JSON value: an object is a dict in which a repeated
\* key keeps its place and takes the last value, an array is a list, a
\* number an int, null is None and a string s is the present value Some(s)
RECURSIVE json_value(_)
RECURSIVE json_members(_)
json_members(members) ==
    IF members = <<>> THEN <<>>
    ELSE dict_set(json_members(Front(members)), Last(members)[1],
                  json_value(Last(members)[2]))

json_value(j) ==
    CASE j.kind = "object" -> json_members(j.members)
      [] j.kind = "array" -> [i \in 1..Len(j.elements) |-> json_value(j.elements[i])]
      [] j.kind = "string" -> Some(j.s)
      [] j.kind = "number" -> j.n
      [] j.kind = "null" -> None

\* json.loads(body)
json_loads(body) ==
    IF body.kind = "html" THEN [result |-> "JSONDecodeError", value |-> <<>>]
    ELSE [result |-> "ok", value |-> json_value(body)]

\* what a generator gave before it ended or raised, with the fetch it made
Listing(fetched, address, result, value) ==
    [fetched |-> fetched, address |-> address, result |-> result, value |-> value]

\* for state in data["StateList"]: yield State(state["SehirAdiEn"], state["SehirID"], country)
RECURSIVE yield_states(_, _)
yield_states(items, country) ==
    IF items = <<>> THEN [result |-> "ok", value |-> <<>>]
    ELSE IF ~dict_has(Head(items), "SehirAdiEn") \/ ~dict_has(Head(items), "SehirID")
    THEN [result |-> "KeyError", value |-> <<>>]
    ELSE LET rest == yield_states(Tail(items), country)
         IN  [result |-> rest.result,
              value |-> << State(dict_get(Head(items), "SehirAdiEn"),
                                 dict_get(Head(items), "SehirID"), country) >>
                        \o rest.value]

StatesKwargs(country) ==
    << <<"ChangeType", PyStr(<<"country">>)>>, <<"CountryId", PyInt(country.idx)>> >>

\* Diyanet.get_states(country), run to its end
get_states(cache, country, response) ==
    LET kwargs == StatesKwargs(country)
        address == get_full_url(BASE_URL, RegListEndpoint, kwargs)
        fetched == fetch(cache, BASE_URL, RegListEndpoint, kwargs, response)
        data == json_loads(fetched.body[1])
        states == yield_states(dict_get(data.value, "StateList"), country)
    IN  IF fetched.result # "ok" THEN Listing(fetched, address, fetched.result, <<>>)
        ELSE IF data.result # "ok" THEN Listing(fetched, address, data.result, <<>>)
        ELSE IF ~dict_has(data.value, "StateList")
        THEN Listing(fetched, address, "KeyError", <<>>)
        ELSE Listing(fetched, address, states.result, states.value)

RECURSIVE yield_regions(_, _)
yield_regions(items, state) ==
    IF items = <<>> THEN [result |-> "ok", value |-> <<>>]
    ELSE IF \/ ~dict_has(Head(items), "IlceAdiEn")
            \/ ~dict_has(Head(items), "IlceID")
            \/ ~dict_has(Head(items), "IlceUrl")
    THEN [result |-> "KeyError", value |-> <<>>]
    ELSE LET rest == yield_regions(Tail(items), state)
         IN  [result |-> rest.result,
              value |-> << Region(dict_get(Head(items), "IlceAdiEn"),
                                  dict_get(Head(items), "IlceID"),
                                  dict_get(Head(items), "IlceUrl"),
                                  state.country, state) >>
                        \o rest.value]

\* a get_regions that asks with the two identifiers exchanged
RegionsKwargs_exchanged(state) ==
    << <<"ChangeType", PyStr(<<"state">>)>>,
       <<"CountryId", PyInt(state.idx)>>,
       <<"StateId", PyInt(state.country.idx)>> >>

RegionsKwargs(state) ==
    << <<"ChangeType", PyStr(<<"state">>)>>,
       <<"CountryId", PyInt(state.country.idx)>>,
       <<"StateId", PyInt(state.idx)>> >>

\* Diyanet.get_regions(state), run to its end
get_regions(cache, state, response) ==
    LET kwargs == RegionsKwargs(state)
        address == get_full_url(BASE_URL, RegListEndpoint, kwargs)
        fetched == fetch(cache, BASE_URL, RegListEndpoint, kwargs, response)
        data == json_loads(fetched.body[1])
        regions == yield_regions(dict_get(data.value, "StateRegionList"), state)
    IN  IF fetched.result # "ok" THEN Listing(fetched, address, fetched.result, <<>>)
        ELSE IF data.result # "ok" THEN Listing(fetched, address, data.result, <<>>)
        ELSE IF ~dict_has(data.value, "StateRegionList")
        THEN Listing(fetched, address, "KeyError", <<>>)
        ELSE Listing(fetched, address, regions.result, regions.value)

----------------------------------------------------------------------------
\* get_country, get_state, get_region

LowerAtom(a) == IF a = "ß" THEN <<a>> ELSE FoldAtom(a)

\* str.lower()
RECURSIVE lower(_)
lower(s) == IF s = <<>> THEN <<>> ELSE LowerAtom(Head(s)) \o lower(Tail(s))

\* a comparison of the names as they are written
NameMatches_exact(name, listing) == name = listing.name[1]

\* name.casefold() == listing.name.casefold()
NameMatches(name, listing) == casefold(name) = casefold(listing.name[1])

\* the for loop of a lookup: the first listing whose name matches; a listing
\* whose name is None makes .casefold() raise
RECURSIVE first_match(_, _)
first_match(listings, name) ==
    IF listings = <<>> THEN [status |-> "exhausted", value |-> None]
    ELSE IF Head(listings).name = None
    THEN [status |-> "AttributeError", value |-> None]
    ELSE IF NameMatches(name, Head(listings))
    THEN [status |-> "ok", value |-> Some(Head(listings))]
    ELSE first_match(Tail(listings), name)

\* a message that carries the name case-folded
NotFound_folded(unit_name, name) ==
    <<"Unknown/unsupported ">> \o unit_name \o <<":", " ", "'">> \o casefold(name) \o <<"'">>

\* f"Unknown/unsupported {unit_name}: '{name}'"
NotFound(unit_name, name) ==
    <<"Unknown/unsupported ">> \o unit_name \o <<":", " ", "'">> \o name \o <<"'">>

\* Diyanet.get_country
get_country(countries, name) ==
    LET found == first_match(get_countries(countries), name)
    IN  IF found.status = "exhausted"
        THEN [status |-> "ValueError", value |-> None,
              message |-> NotFound(<<"c", "o", "u", "n", "t", "r", "y">>, name)]
        ELSE [status |-> found.status, value |-> found.value, message |-> <<>>]

\* State.__name__, Region.__name__
StateUnit == <<"S", "t", "a", "t", "e">>
RegionUnit == <<"R", "e", "g", "i", "o", "n">>

\* getattr(self, f"get_{unit_name}s")(arg)
lister(cache, unit_name, arg, response) ==
    IF unit_name = <<"s", "t", "a", "t", "e">>
    THEN get_states(cache, arg, response)
    ELSE get_regions(cache, arg, response)

\* Diyanet._geographic_search: the generator is consumed up to the first
\* match; when it ends without one the else clause raises, and when it
\* raises its error goes to the caller
_geographic_search(cache, unit, arg, name, response) ==
    LET unit_name == lower(unit)
        listing == lister(cache, unit_name, arg, response)
        found == first_match(listing.value, name)
    IN  [listing |-> listing,
         status |-> IF found.status # "exhausted" THEN found.status
                    ELSE IF listing.result # "ok" THEN listing.result
                    ELSE "ValueError",
         value |-> found.value,
         message |-> IF found.status = "exhausted" /\ listing.result = "ok"
                     THEN NotFound(unit_name, name) ELSE <<>>]

get_state(cache, arg, name, response) ==
    _geographic_search(cache, StateUnit, arg, name, response)

get_region(cache, arg, name, response) ==
    _geographic_search(cache, RegionUnit, arg, name, response)

----------------------------------------------------------------------------
\* Lookups on a constructed instance (SpecGeo)

MaxListGets == 3

\* two options whose labels collide after case folding, a third between them
HomePageColliding ==
    OptionDoc("absent", <<"country-select">>,
              << <<<<"1">>, <<"T", "u", "r", "k", "e", "y">>>>,
                 <<<<"2">>, <<"G", "e", "r", "m", "a", "n", "y">>>>,
                 <<<<"3">>, <<"T", "U", "R", "K", "E", "Y">>>> >>,
              FALSE, "absent")

GeoHomePages == {HomePage, HomePageRepeated, HomePageColliding}

\* the names a caller asks for
GeoNames ==
    { <<"T", "U", "R", "K", "E", "Y">>, <<"t", "u", "r", "k", "e", "y">>,
      <<"G", "e", "r", "m", "a", "n", "y">>,
      <<"A", "t", "l", "a", "n", "t", "i", "s">>,
      <<"a", "n", "k", "a", "r", "a">>,
      <<"S", "T", "R", "A", "S", "S", "E">> }

StateJSON(name, idx) ==
    JObject(<< <<"SehirAdiEn", JString(name)>>, <<"SehirID", JNumber(idx)>> >>)

RegionJSON(name, idx, url) ==
    JObject(<< <<"IlceAdiEn", JString(name)>>, <<"IlceID", JNumber(idx)>>,
               <<"IlceUrl", JString(url)>> >>)

\* bodies the site may serve for GetRegList
RegList ==
    JObject(<< <<"StateList",
                 JArray(<< StateJSON(<<"A", "N", "K", "A", "R", "A">>, 506),
                           StateJSON(<<"S", "t", "r", "a", "ß", "e">>, 1) >>)>>,
               <<"StateRegionList",
                 JArray(<< RegionJSON(<<"S", "T", "R", "A", "S", "S", "E">>, 9206,
                                      <<"/tr-TR/9206/strasse">>),
                           RegionJSON(<<"A", "n", "k", "a", "r", "a">>, 9207,
                                      <<"/tr-TR/9207/ankara">>) >>)>> >>)

\* the second record of each list lacks its name
RegListPartial ==
    JObject(<< <<"StateList",
                 JArray(<< StateJSON(<<"A", "N", "K", "A", "R", "A">>, 506),
                           JObject(<< <<"SehirID", JNumber(9)>> >>) >>)>>,
               <<"StateRegionList",
                 JArray(<< RegionJSON(<<"A", "n", "k", "a", "r", "a">>, 9207,
                                      <<"/tr-TR/9207/ankara">>),
                           JObject(<< <<"IlceID", JNumber(9)>> >>) >>)>> >>)

GeoResponses ==
    { Response("ok", b) :
          b \in {RegList, RegListPartial, NotJSON(HomePage)} }
    \cup { Response("URLError", <<>>) }

\* the Country objects a caller can hold: the values of the directory
HeldCountries == { countries_cache[i][2] : i \in 1..Len(countries_cache) }

\* the State objects a caller holds after the last call
HeldStates ==
    IF lookup.op = "get_state" /\ lookup.status = "ok" THEN {lookup.value[1]}
    ELSE IF lookup.op = "get_states"
    THEN { lookup.listed[i] : i \in 1..Len(lookup.listed) }
    ELSE {}

\* the fetch of a listing, on the constructed instance
Fetched(listing, response) ==
    /\ CacheHit(page_cache, listing.address) \/ Len(gets) < MaxListGets
    /\ page_cache' = listing.fetched.cache
    /\ gets' = Logged(gets, listing.address, listing.fetched, response)
    /\ stored' = Cached(stored, listing.address, listing.fetched)
    /\ last' = Outcome("fetch", listing.address, listing.fetched.result,
                       listing.fetched.body, listing.fetched.get)
    /\ UNCHANGED <<db, alive, countries_cache, runs>>

Listed(op, arg, listing) ==
    [NoLookup EXCEPT !.op = op, !.arg = Some(arg), !.address = Some(listing.address),
                     !.lister = listing.result, !.listed = listing.value,
                     !.status = listing.result]

Searched(op, arg, name, found) ==
    [op |-> op, arg |-> Some(arg), name |-> name,
     address |-> Some(found.listing.address),
     lister |-> found.listing.result, listed |-> found.listing.value,
     status |-> found.status, value |-> found.value, message |-> found.message]

\* the site answers every GetRegList request of a run in the same way
GeoInit ==
    /\ IdleOptions /\ IdleTimes /\ IdleGetTimes /\ IdleCache /\ IdleEnviron
    /\ site \in GeoResponses
    /\ lookup = NoLookup

GeoOpen == \E body \in GeoHomePages : Open(Response("ok", body))

GetCountries ==
    /\ alive
    /\ lookup' = [NoLookup EXCEPT !.op = "get_countries", !.lister = "ok",
                                  !.listed = get_countries(countries_cache),
                                  !.status = "ok"]
    /\ UNCHANGED <<optVars, timeVars, getVars, cacheVars, envVars, site>>

GetCountry ==
    /\ alive
    /\ \E name \in GeoNames :
           LET found == get_country(countries_cache, name)
           IN  lookup' = [op |-> "get_country", arg |-> None, name |-> name,
                          address |-> None, lister |-> "ok",
                          listed |-> get_countries(countries_cache),
                          status |-> found.status, value |-> found.value,
                          message |-> found.message]
    /\ UNCHANGED <<optVars, timeVars, getVars, cacheVars, envVars, site>>

GetStates ==
    /\ alive
    /\ \E country \in HeldCountries :
           LET listing == get_states(page_cache, country, site)
           IN  /\ Fetched(listing, site)
               /\ lookup' = Listed("get_states", country, listing)
    /\ UNCHANGED <<optVars, timeVars, getVars, envVars, site>>

GetState ==
    /\ alive
    /\ \E country \in HeldCountries, name \in GeoNames :
           LET found == get_state(page_cache, country, name, site)
           IN  /\ Fetched(found.listing, site)
               /\ lookup' = Searched("get_state", country, name, found)
    /\ UNCHANGED <<optVars, timeVars, getVars, envVars, site>>

GetRegions ==
    /\ alive
    /\ \E state \in HeldStates :
           LET listing == get_regions(page_cache, state, site)
           IN  /\ Fetched(listing, site)
               /\ lookup' = Listed("get_regions", state, listing)
    /\ UNCHANGED <<optVars, timeVars, getVars, envVars, site>>

GetRegion ==
    /\ alive
    /\ \E state \in HeldStates, name \in GeoNames :
           LET found == get_region(page_cache, state, name, site)
           IN  /\ Fetched(found.listing, site)
               /\ lookup' = Searched("get_region", state, name, found)
    /\ UNCHANGED <<optVars, timeVars, getVars, envVars, site>>

GeoNext ==
    \/ GeoOpen
    \/ GetCountries
    \/ GetCountry
    \/ GetStates
    \/ GetState
    \/ GetRegions
    \/ GetRegion

SpecGeo == GeoInit /\ [][GeoNext]_vars

----------------------------------------------------------------------------
\* Properties of the geographic lookups (SpecGeo)

\* C11: get_country is case-insensitive: whatever name was looked up, every
\* name equal to it after case folding gets the same outcome from the same
\* directory, the identical Country or a failure; a Country that is returned
\* has a name equal to the searched one after case folding.
CountryLookupIgnoresCase ==
    lookup.op = "get_country" =>
        /\ \A other \in GeoNames :
               casefold(other) = casefold(lookup.name) =>
                   /\ get_country(countries_cache, other).status = lookup.status
                   /\ get_country(countries_cache, other).value = lookup.value
        /\ lookup.status \in {"ok", "ValueError"}
        /\ lookup.status = "ok" =>
               casefold(lookup.value[1].name[1]) = casefold(lookup.name)

\* "TURKEY" was looked up in the directory of the home page and gave Turkey
TurkeyFoundInCapitals ==
    /\ lookup.op = "get_country"
    /\ lookup.name = <<"T", "U", "R", "K", "E", "Y">>
    /\ lookup.status = "ok"
    /\ lookup.value = Some(Country(Some(<<"t", "u", "r", "k", "e", "y">>), 2))

\* the level a lookup searches, as its error message names it
Level(op) ==
    CASE op = "get_country" -> <<"c", "o", "u", "n", "t", "r", "y">>
      [] op = "get_state" -> <<"s", "t", "a", "t", "e">>
      [] op = "get_region" -> <<"r", "e", "g", "i", "o", "n">>

\* C12: at each level, when the directory could be listed, a name equal after
\* case folding to the name of no entry makes the lookup raise ValueError with
\* the message "Unknown/unsupported <level>: '<name as typed>'" and return
\* nothing, and a name equal to that of some entry makes it return an entity.
NotFoundNamesLevelAndName ==
    (lookup.op \in {"get_country", "get_state", "get_region"} /\ lookup.lister = "ok") =>
        LET absent == \A i \in 1..Len(lookup.listed) :
                          casefold(lookup.listed[i].name[1]) # casefold(lookup.name)
        IN  /\ absent =>
                   /\ lookup.status = "ValueError"
                   /\ lookup.value = None
                   /\ lookup.message =
                          <<"Unknown/unsupported ">> \o Level(lookup.op)
                          \o <<":", " ", "'">> \o lookup.name \o <<"'">>
            /\ ~absent =>
                   /\ lookup.status = "ok"
                   /\ lookup.value # None
                   /\ lookup.message = <<>>

\* "Atlantis" was looked up among the two regions of a state
UnknownRegionSearched ==
    /\ lookup.op = "get_region"
    /\ lookup.name = <<"A", "t", "l", "a", "n", "t", "i", "s">>
    /\ Len(lookup.listed) = 2
    /\ lookup.status = "ValueError"

\* the addresses of the two list requests, written out
StateListURL(country) ==
    BASE_URL
    \o <<"/tr-TR/home/GetRegList", "?", "ChangeType", "=", "country", "&", "CountryId", "=">>
    \o str_int(country.idx)

RegionListURL(state) ==
    BASE_URL
    \o <<"/tr-TR/home/GetRegList", "?", "ChangeType", "=", "state", "&", "CountryId", "=">>
    \o str_int(state.country.idx) \o <<"&", "StateId", "=">> \o str_int(state.idx)

\* C13: every Region listed by get_regions(state) or returned by
\* get_region(state, name) has that state as its state and the state's country
\* as its country, a Country of the directory; every State listed by
\* get_states(country) or returned by get_state has that country as its
\* country; the region list is asked for with CountryId = state.country.idx
\* and StateId = state.idx, the state list with CountryId = country.idx.
BackReferencesConsistent ==
    /\ lookup.op \in {"get_regions", "get_region"} =>
           /\ \A i \in 1..Len(lookup.listed) :
                  /\ lookup.listed[i].state = lookup.arg[1]
                  /\ lookup.listed[i].country = lookup.listed[i].state.country
           /\ lookup.value # None =>
                  /\ lookup.value[1].state = lookup.arg[1]
                  /\ lookup.value[1].country = lookup.value[1].state.country
                  /\ lookup.value[1].country \in HeldCountries
           /\ lookup.address = Some(RegionListURL(lookup.arg[1]))
    /\ lookup.op \in {"get_states", "get_state"} =>
           /\ \A i \in 1..Len(lookup.listed) : lookup.listed[i].country = lookup.arg[1]
           /\ lookup.value # None => lookup.value[1].country = lookup.arg[1]
           /\ lookup.address = Some(StateListURL(lookup.arg[1]))

\* a region was found in state 1 of country 2
RegionOfStateFound ==
    /\ lookup.op = "get_region"
    /\ lookup.status = "ok"
    /\ lookup.value[1].name = Some(<<"S", "T", "R", "A", "S", "S", "E">>)
    /\ lookup.value[1].state.idx = 1
    /\ lookup.value[1].country.idx = 2
    /\ Len(lookup.listed) = 2

\* C14: get_countries iterates the country directory in ascending idx order,
\* whatever the home page, also when labels of the country select collide
\* after case folding.
CountriesAscendingByIdx ==
    lookup.op = "get_countries" =>
        \A i, j \in 1..Len(lookup.listed) :
            i < j => lookup.listed[i].idx < lookup.listed[j].idx

----------------------------------------------------------------------------
\* Properties of PrayerTimeParser, handler by handler (SpecTimes)

\* C15: no handler of PrayerTimeParser raises, whatever the sequence of
\* start-tag, text and end-tag events.
PrayerTimeParserNeverRaises == ptp.error = "none"

\* C16: text in the want-value state fills the value of the most recent record
\* when that value is None and removes the most recent record otherwise; no
\* step changes a record that has its value: the record stays as it is or is
\* no longer in the list.
FilledValueNeverOverwritten ==
    [][ tpos' = tpos + 1 =>
          /\ (tev'.kind = "data" /\ ptp.record_state = VALUE /\ ptp.times # <<>>) =>
                 /\ ptp'.error = "none"
                 /\ ptp'.times =
                        IF Last(ptp.times)[2] = None
                        THEN Append(Front(ptp.times),
                                    <<Last(ptp.times)[1], Some(tev'.data)>>)
                        ELSE Front(ptp.times)
          /\ \A i \in 1..Len(ptp.times) :
                 ptp.times[i][2] # None =>
                     \/ i > Len(ptp'.times)
                     \/ ptp'.times[i] = ptp.times[i] ]_vars

\* the text of a tpt-time div has just filled the value of the second record
SecondValueFilled ==
    /\ tev = Data(<<"0", "5", ":", "1", "2">>)
    /\ ptp.record_state = VALUE
    /\ Len(ptp.times) = 2
    /\ ptp.times[2] = << <<"Gunes">>, Some(<<"0", "5", ":", "1", "2">>) >>

\* C17: a start tag sets the signal to NAME / VALUE when it is a <div> whose
\* class is exactly tpt-title / tpt-time and leaves it unchanged otherwise;
\* every closing tag resets it to None; tags leave the records alone; text
\* leaves the signal alone, and text that arrives while the signal is None
\* changes nothing.  So text changes the records only while the signal of a
\* qualifying start tag stands, and no closing tag has been handled since.
SignalFollowsTags ==
    [][ tpos' = tpos + 1 =>
          /\ tev'.kind = "start" =>
                 /\ ptp'.record_state =
                        IF IsTitleStart(tev') THEN NAME
                        ELSE IF IsTimeStart(tev') THEN VALUE
                        ELSE ptp.record_state
                 /\ ptp'.times = ptp.times
                 /\ ptp'.error = "none"
          /\ tev'.kind = "end" =>
                 /\ ptp'.record_state = NoState
                 /\ ptp'.times = ptp.times
                 /\ ptp'.error = "none"
          /\ tev'.kind = "data" =>
                 /\ ptp'.record_state = ptp.record_state
                 /\ ptp.record_state = NoState => ptp' = ptp
                 /\ ptp'.record_state # NoState => tev.kind # "end" ]_vars

\* a <span class="tpt-time"> start tag was handled while a name was wanted
OtherTagLeftSignal ==
    /\ tev = StartTag("span", Class(<<"tpt-time">>))
    /\ ptp.record_state = NAME
    /\ Len(ptp.times) = 1

\* C18: at most one record has a None value, and it is the last one: every
\* record before the last has its label and its value.
OnlyLastRecordPending ==
    \A i \in 1..Len(ptp.times) :
        /\ Len(ptp.times[i]) = 2
        /\ ptp.times[i][2] = None => i = Len(ptp.times)

\* a complete record is followed by a record that waits for its value
PendingAfterComplete ==
    /\ Len(ptp.times) = 2
    /\ ptp.times[1][2] # None
    /\ ptp.times[2][2] = None
    /\ ptp.error = "none"

\* C19: text in the want-name state never loses a label: after it the last
\* record is (trimmed text, None) and no record collected before is gone.
NameTextAlwaysRecorded ==
    [][ (tpos' = tpos + 1 /\ tev'.kind = "data" /\ ptp.record_state = NAME) =>
            /\ ptp'.times # <<>>
            /\ Last(ptp'.times) = <<strip(tev'.data), None>>
            /\ Len(ptp'.times) >= Len(ptp.times) ]_vars

----------------------------------------------------------------------------
\* _get_cache_dir (SpecCacheDir)

CACHE_PRIORITY == <<"DIYANET_CACHE_HOME", "XDG_CACHE_HOME">>

\* pathlib.Path(s): the parts of a path written with "/" between its names;
\* a path is the sequence of its parts, "/" first when it is absolute
Path(s) ==
    (IF s # <<>> /\ Head(s) = "/" THEN <<"/">> ELSE <<>>)
    \o SelectSeq(s, LAMBDA a : a # "/")

\* the home directory of the user
UserHome == <<"/", "home", "u">>

\* Path.expanduser()
expanduser(path) ==
    IF path # <<>> /\ Head(path) = "~" THEN UserHome \o Tail(path) ELSE path

\* path / name
JoinPath(path, name) == Append(path, name)

\* for option in CACHE_PRIORITY: if option in os.environ: path = os.environ.get(option)
RECURSIVE for_options(_, _, _)
for_options(options, env, path) ==
    IF options = <<>> THEN path
    ELSE for_options(Tail(options), env,
                     IF dict_has(env, Head(options))
                     THEN Some(dict_get(env, Head(options))) ELSE path)

\* the else clause of the for statement: the loop has no break, so the clause
\* runs after every loop and its assignment replaces what the loop assigned
for_else(path) == Some(<<"~", "/", ".cache">>)

\* _get_cache_dir: what is returned or raised, and the directories afterwards
_get_cache_dir(env, fs) ==
    LET chosen == for_else(for_options(CACHE_PRIORITY, env, None))
        path == expanduser(Path(chosen[1]))
    IN  IF path \in fs
        THEN [status |-> "ok", value |-> Some(JoinPath(path, "diyanet")),
              dirs |-> fs \cup {JoinPath(path, "diyanet")}]
        ELSE [status |-> "ValueError", value |-> None, dirs |-> fs]

\* what the two variables may hold when they are set
CacheHomes == { <<"/", "d">>, <<"/", "x">>, <<"~", "/", "c">> }

EnvSetting(option, value) == IF value = None THEN <<>> ELSE << <<option, value[1]>> >>

Environs ==
    { EnvSetting("XDG_CACHE_HOME", xdg) \o EnvSetting("DIYANET_CACHE_HOME", own) :
          xdg \in {None} \cup {Some(v) : v \in CacheHomes},
          own \in {None} \cup {Some(v) : v \in CacheHomes} }

\* directories that may exist before the call
CacheParents ==
    { <<"/", "d">>, <<"/", "x">>, <<"/", "home", "u", "c">>,
      <<"/", "home", "u", ".cache">> }

CacheDirInit ==
    /\ IdleOptions /\ IdleTimes /\ IdleGetTimes /\ IdleCache /\ IdleLookup
    /\ environ \in Environs
    /\ dirs \in SUBSET CacheParents
    /\ cache_dir = [status |-> "none", value |-> None]

GetCacheDir ==
    /\ cache_dir.status = "none"
    /\ LET made == _get_cache_dir(environ, dirs)
       IN  /\ cache_dir' = [status |-> made.status, value |-> made.value]
           /\ dirs' = made.dirs
    /\ UNCHANGED <<environ, optVars, timeVars, getVars, cacheVars, geoVars>>

CacheDirNext == GetCacheDir

SpecCacheDir == CacheDirInit /\ [][CacheDirNext]_vars

\* the directory the priority order selects: DIYANET_CACHE_HOME when set,
\* else XDG_CACHE_HOME when set, else ~/.cache
PriorityChoice(env) ==
    IF dict_has(env, "DIYANET_CACHE_HOME") THEN dict_get(env, "DIYANET_CACHE_HOME")
    ELSE IF dict_has(env, "XDG_CACHE_HOME") THEN dict_get(env, "XDG_CACHE_HOME")
    ELSE <<"~", "/", ".cache">>

\* C20: _get_cache_dir takes the value of DIYANET_CACHE_HOME when it is set,
\* else that of XDG_CACHE_HOME when it is set, else ~/.cache; it raises when
\* the chosen path does not exist and otherwise returns its sub-directory
\* "diyanet".
CacheDirFollowsPriority ==
    [][ cache_dir'.status # cache_dir.status =>
            LET chosen == expanduser(Path(PriorityChoice(environ)))
            IN  IF chosen \in dirs
                THEN /\ cache_dir'.status = "ok"
                     /\ cache_dir'.value = Some(Append(chosen, "diyanet"))
                ELSE cache_dir'.status = "ValueError" ]_vars

====
